---- MODULE Spec2Model ----
\* Model of lib_pandas.ipynb: the example dataframe and the pandas
\* selection, masking and group-by idioms the notebook demonstrates.
\*
\* A dataframe is a record [columns, index, data]: `columns` the ordered
\* column labels, `index` the ordered row labels and `data` a function from
\* column label to the sequence of that column's values, aligned with `index`.
\* A series is [name, index, values]; a boolean mask is a series of booleans.
\* float64 cells are exact rationals [num, den] in lowest terms; NaN is 0/0.
EXTENDS Integers, Sequences, FiniteSets, TLC

\* dfs     the dataframes returned by example_df(), in order of creation
\* last    the statement executed last, with its arguments
\* result  the value the last statement evaluated to (the cell's output)
\* warn    the warning the last statement emitted
\* err     the exception the last statement raised
\* writes  the number of assignment statements executed
VARIABLES dfs, last, result, warn, err, writes

vars == <<dfs, last, result, warn, err, writes>>

\* ---------------------------------------------------------------- bounds
MaxTables == 2
MaxWrites == 2

\* ---------------------------------------------------------------- floats
NaN == [num |-> 0, den |-> 0]

RECURSIVE Gcd(_, _)
Gcd(a, b) == IF b = 0 THEN a ELSE Gcd(b, a % b)

Abs(n) == IF n < 0 THEN -n ELSE n

isnan(x) == x.den = 0

\* n / d as float64; 0/0 and x/0 with no sign bookkeeping are NaN here
Frac(n, d) ==
    IF d = 0 THEN NaN
    ELSE LET g == Gcd(Abs(n), Abs(d))
             s == IF d < 0 THEN -1 ELSE 1
         IN  [num |-> (s * n) \div g, den |-> (s * d) \div g]

F(n) == Frac(n, 1)

FAdd(x, y) == IF isnan(x) \/ isnan(y) THEN NaN
              ELSE Frac(x.num * y.den + y.num * x.den, x.den * y.den)

FSub(x, y) == IF isnan(x) \/ isnan(y) THEN NaN
              ELSE Frac(x.num * y.den - y.num * x.den, x.den * y.den)

FMul(x, y) == IF isnan(x) \/ isnan(y) THEN NaN
              ELSE Frac(x.num * y.num, x.den * y.den)

FDiv(x, y) == IF isnan(x) \/ isnan(y) THEN NaN
              ELSE Frac(x.num * y.den, x.den * y.num)

\* comparisons with NaN are False
FGe(x, y) == ~isnan(x) /\ ~isnan(y) /\ x.num * y.den >= y.num * x.den
FLe(x, y) == ~isnan(x) /\ ~isnan(y) /\ x.num * y.den <= y.num * x.den

\* ---------------------------------------------------------------- example_df
example_df_cached ==
    IF Len(dfs) > 0 THEN dfs[1]
    ELSE [columns |-> <<"Cat", "Val1", "Val2">>,
          index   |-> <<0, 1, 2, 3>>,
          data    |-> [c \in {"Cat", "Val1", "Val2"} |->
                         CASE c = "Cat"  -> <<"C1", "C1", "C2", "C2">>
                           [] c = "Val1" -> <<F(1), F(3), F(5), F(7)>>
                           [] c = "Val2" -> <<F(2), F(4), F(6), F(8)>>]]

example_df ==
    [columns |-> <<"Cat", "Val1", "Val2">>,
     index   |-> <<0, 1, 2, 3>>,
     data    |-> [c \in {"Cat", "Val1", "Val2"} |->
                    CASE c = "Cat"  -> <<"C1", "C1", "C2", "C2">>
                      [] c = "Val1" -> <<F(1), F(3), F(5), F(7)>>
                      [] c = "Val2" -> <<F(2), F(4), F(6), F(8)>>]]

\* ---------------------------------------------------------------- helpers
Range(s) == {s[i] : i \in DOMAIN s}

nrows(df) == Len(df.index)

\* positions 1..n of a boolean sequence that hold True, in increasing order
RECURSIVE nonzero(_, _)
nonzero(bools, i) ==
    IF i > Len(bools) THEN << >>
    ELSE IF bools[i] THEN <<i>> \o nonzero(bools, i + 1)
         ELSE nonzero(bools, i + 1)

take(values, pos) == [k \in 1..Len(pos) |-> values[pos[k]]]

\* ---------------------------------------------------------------- df[...]
\* df["Cat"]
getitem_col(df, name) ==
    [name |-> name, index |-> df.index, values |-> df.data[name]]

\* series == v, series >= v, series <= v
series_eq(s, v) ==
    [name |-> s.name, index |-> s.index,
     values |-> [i \in 1..Len(s.values) |-> s.values[i] = v]]

series_ge(s, v) ==
    [name |-> s.name, index |-> s.index,
     values |-> [i \in 1..Len(s.values) |-> FGe(s.values[i], v)]]

series_le(s, v) ==
    [name |-> s.name, index |-> s.index,
     values |-> [i \in 1..Len(s.values) |-> FLe(s.values[i], v)]]

\* m1 & m2, m1 | m2, ~m
mask_and_misaligned(m1, m2) ==
    [name |-> m1.name, index |-> m1.index,
     values |-> [i \in 1..Len(m1.values) |->
                   m1.values[i] /\ m2.values[Len(m2.values) + 1 - i]]]

mask_and(m1, m2) ==
    [name |-> m1.name, index |-> m1.index,
     values |-> [i \in 1..Len(m1.values) |-> m1.values[i] /\ m2.values[i]]]

mask_or(m1, m2) ==
    [name |-> m1.name, index |-> m1.index,
     values |-> [i \in 1..Len(m1.values) |-> m1.values[i] \/ m2.values[i]]]

mask_not(m) ==
    [name |-> m.name, index |-> m.index,
     values |-> [i \in 1..Len(m.values) |-> ~m.values[i]]]

\* series.isin(vals)
isin_first_only(s, vals) ==
    [name |-> s.name, index |-> s.index,
     values |-> [i \in 1..Len(s.values) |->
                   s.values[i] = (CHOOSE v \in vals : \A w \in vals : FLe(v, w))]]

isin(s, vals) ==
    [name |-> s.name, index |-> s.index,
     values |-> [i \in 1..Len(s.values) |-> s.values[i] \in vals]]

\* df[mask]: the rows where the mask holds, with their labels
getitem_mask_reset_index(df, mask) ==
    LET pos == nonzero(mask.values, 1)
    IN  [columns |-> df.columns,
         index   |-> [k \in 1..Len(pos) |-> k - 1],
         data    |-> [c \in DOMAIN df.data |-> take(df.data[c], pos)]]

getitem_mask(df, mask) ==
    LET pos == nonzero(mask.values, 1)
    IN  [columns |-> df.columns,
         index   |-> take(df.index, pos),
         data    |-> [c \in DOMAIN df.data |-> take(df.data[c], pos)]]

\* ---------------------------------------------------------------- the masks the notebook forms
PredNames == {"CatC1", "CatC2", "Val2Range", "Val2In"}

pred_mask(df, p) ==
    CASE p = "CatC1"     -> series_eq(getitem_col(df, "Cat"), "C1")
      [] p = "CatC2"     -> series_eq(getitem_col(df, "Cat"), "C2")
      [] p = "Val2Range" -> mask_and(series_ge(getitem_col(df, "Val2"), F(4)),
                                     series_le(getitem_col(df, "Val2"), F(6)))
      [] p = "Val2In"    -> isin(getitem_col(df, "Val2"), {F(4), F(8)})

\* ---------------------------------------------------------------- df.loc[mask, col] = value
\* a column the frame does not have yet is first added, filled with NaN
loc_setitem_whole_column(df, mask, col, v) ==
    LET n    == nrows(df)
        isnew == col \notin Range(df.columns)
        cols == IF isnew THEN Append(df.columns, col) ELSE df.columns
    IN  [columns |-> cols,
         index   |-> df.index,
         data    |-> [c \in Range(cols) |->
                        IF c = col THEN [i \in 1..n |-> v] ELSE df.data[c]]]

loc_setitem(df, mask, col, v) ==
    LET n    == nrows(df)
        isnew == col \notin Range(df.columns)
        cols == IF isnew THEN Append(df.columns, col) ELSE df.columns
        old  == IF isnew THEN [i \in 1..n |-> NaN] ELSE df.data[col]
    IN  [columns |-> cols,
         index   |-> df.index,
         data    |-> [c \in Range(cols) |->
                        IF c = col
                        THEN [i \in 1..n |-> IF mask.values[i] THEN v ELSE old[i]]
                        ELSE df.data[c]]]

\* ---------------------------------------------------------------- df[mask][col] = value
\* __getitem__ then __setitem__ on its result; the result of __getitem__ is
\* either a view of df or a copy of it
chained_setitem_whole_column(df, mask, col, v, isView) ==
    IF isView /\ col \in Range(df.columns)
    THEN [df EXCEPT !.data[col] = [i \in 1..nrows(df) |-> v]]
    ELSE df

chained_setitem(df, mask, col, v, isView) ==
    IF isView /\ col \in Range(df.columns)
    THEN [df EXCEPT !.data[col] =
              [i \in 1..nrows(df) |-> IF mask.values[i] THEN v ELSE @[i]]]
    ELSE df

\* df[mask][col]
chained_getitem(df, mask, col) == getitem_col(getitem_mask(df, mask), col)

\* df.loc[mask, col]: the cells of col in the rows where the mask holds
loc_getitem(df, mask, col) ==
    LET pos == nonzero(mask.values, 1)
    IN  [name |-> col, index |-> take(df.index, pos), values |-> take(df.data[col], pos)]

\* ---------------------------------------------------------------- reducers
\* the values that are not NaN, in order (pandas reducers skip NaN)
RECURSIVE dropna(_, _)
dropna(values, i) ==
    IF i > Len(values) THEN << >>
    ELSE IF isnan(values[i]) THEN dropna(values, i + 1)
         ELSE <<values[i]>> \o dropna(values, i + 1)

RECURSIVE fsum(_, _)
fsum(values, i) ==
    IF i > Len(values) THEN F(0) ELSE FAdd(values[i], fsum(values, i + 1))

\* np.mean / Series.mean()
mean(values) ==
    LET xs == dropna(values, 1)
    IN  IF Len(xs) = 0 THEN NaN ELSE FDiv(fsum(xs, 1), F(Len(xs)))

\* np.var through groupby: ddof = 1
var_population(values) ==
    LET xs == dropna(values, 1)
        m  == mean(xs)
        sq == [i \in 1..Len(xs) |-> FMul(FSub(xs[i], m), FSub(xs[i], m))]
    IN  IF Len(xs) = 0 THEN NaN ELSE FDiv(fsum(sq, 1), F(Len(xs)))

var(values) ==
    LET xs == dropna(values, 1)
        m  == mean(xs)
        sq == [i \in 1..Len(xs) |-> FMul(FSub(xs[i], m), FSub(xs[i], m))]
    IN  IF Len(xs) <= 1 THEN NaN ELSE FDiv(fsum(sq, 1), F(Len(xs) - 1))

Reducers == {"mean", "var"}

reduce(f, values) ==
    CASE f = "mean" -> mean(values)
      [] f = "var"  -> var(values)

\* ---------------------------------------------------------------- df.groupby("Cat")
\* group keys come out sorted; the key values that occur are "C1" and "C2"
KeyOrder == <<"C1", "C2">>

RECURSIVE sorted_keys(_, _)
sorted_keys(present, i) ==
    IF i > Len(KeyOrder) THEN << >>
    ELSE IF KeyOrder[i] \in present THEN <<KeyOrder[i]>> \o sorted_keys(present, i + 1)
         ELSE sorted_keys(present, i + 1)

\* [key, keys, pos]: pos[k] the positions of the rows of group keys[k], in row order
groupby_first_row_only(df, key) ==
    LET ks == sorted_keys(Range(df.data[key]), 1)
    IN  [key  |-> key,
         keys |-> ks,
         pos  |-> [k \in 1..Len(ks) |->
                     <<nonzero([i \in 1..nrows(df) |-> df.data[key][i] = ks[k]], 1)[1]>>]]

groupby(df, key) ==
    LET ks == sorted_keys(Range(df.data[key]), 1)
    IN  [key  |-> key,
         keys |-> ks,
         pos  |-> [k \in 1..Len(ks) |->
                     nonzero([i \in 1..nrows(df) |-> df.data[key][i] = ks[k]], 1)]]

\* the columns that are not the group key, in frame order
value_columns(df, key) == SelectSeq(df.columns, LAMBDA c : c # key)

\* .agg(func): func(series) once for each series of every group
agg_ungrouped(df, key, f) ==
    LET g    == groupby(df, key)
        cols == value_columns(df, key)
    IN  [columns |-> cols,
         index   |-> g.keys,
         data    |-> [c \in Range(cols) |->
                        [k \in 1..Len(g.keys) |-> reduce(f, df.data[c])]]]

agg(df, key, f) ==
    LET g    == groupby(df, key)
        cols == value_columns(df, key)
    IN  [columns |-> cols,
         index   |-> g.keys,
         data    |-> [c \in Range(cols) |->
                        [k \in 1..Len(g.keys) |-> reduce(f, take(df.data[c], g.pos[k]))]]]

\* .agg([f1, f2]): columns are (column, reducer) pairs, column-major
agg_multi(df, key, fs) ==
    LET g    == groupby(df, key)
        cols == value_columns(df, key)
        nf   == Len(fs)
        pairs == [j \in 1..(Len(cols) * nf) |->
                    <<cols[((j - 1) \div nf) + 1], fs[((j - 1) % nf) + 1]>>]
    IN  [columns |-> pairs,
         index   |-> g.keys,
         data    |-> [cf \in Range(pairs) |->
                        [k \in 1..Len(g.keys) |->
                            reduce(cf[2], take(df.data[cf[1]], g.pos[k]))]]]

\* .agg(name=(column, func), ...): one output column per declared name
agg_named(df, key, named) ==
    LET g == groupby(df, key)
    IN  [columns |-> [j \in 1..Len(named) |-> named[j].name],
         index   |-> g.keys,
         data    |-> [nm \in {named[j].name : j \in 1..Len(named)} |->
                        LET d == CHOOSE e \in Range(named) : e.name = nm
                        IN  [k \in 1..Len(g.keys) |->
                                reduce(d.func, take(df.data[d.col], g.pos[k]))]]]

\* ---------------------------------------------------------------- .apply(func)
\* the dataframe holding the rows at positions pos of df, all columns kept
group_frame_whole(df, pos) == df

group_frame(df, pos) ==
    [columns |-> df.columns,
     index   |-> take(df.index, pos),
     data    |-> [c \in DOMAIN df.data |-> take(df.data[c], pos)]]

\* the calls func(group) that apply makes: one per group, in key order
RECURSIVE group_calls(_, _, _)
group_calls(df, g, k) ==
    IF k > Len(g.keys) THEN << >>
    ELSE <<[key |-> g.keys[k], group |-> group_frame(df, g.pos[k])]>>
           \o group_calls(df, g, k + 1)

apply_calls(df, key) == group_calls(df, groupby(df, key), 1)

\* the columns DataFrame.mean() and .var() reduce: Cat holds text and is left out
numeric_columns(df) == value_columns(df, "Cat")

\* the functions given to apply: "mean" is lambda df: df.mean() and "var" is
\* lambda df: df.var(), both returning a series; "size" is lambda df: len(df),
\* a scalar; "head1" is lambda df: df.head(1), a dataframe
ApplyFuncs == {"mean", "var", "size", "head1"}

apply_func(f, group) ==
    CASE f \in Reducers ->
             LET cols == numeric_columns(group)
             IN  [kind   |-> "series",
                  index  |-> cols,
                  values |-> [j \in 1..Len(cols) |-> reduce(f, group.data[cols[j]])]]
      [] f = "size"  -> [kind |-> "scalar", value |-> F(nrows(group))]
      [] f = "head1" -> [kind |-> "frame", frame |-> group_frame(group, <<1>>)]

\* what func returns for each call, in call order
RECURSIVE apply_each(_, _, _)
apply_each(f, calls, k) ==
    IF k > Len(calls) THEN << >>
    ELSE <<apply_func(f, calls[k].group)>> \o apply_each(f, calls, k + 1)

\* the result is shaped by what func returned: scalars make a series keyed by
\* group, series make a dataframe with one row per group, dataframes are
\* stacked, each row labelled (group key, row label)
apply(df, key, f) ==
    LET calls == apply_calls(df, key)
        n     == Len(calls)
        outs  == apply_each(f, calls, 1)
        kind  == outs[1].kind
        RECURSIVE stack_index(_)
        stack_index(k) ==
            IF k > n THEN << >>
            ELSE [j \in 1..Len(outs[k].frame.index) |->
                     <<calls[k].key, outs[k].frame.index[j]>>] \o stack_index(k + 1)
        RECURSIVE stack_data(_, _)
        stack_data(c, k) ==
            IF k > n THEN << >> ELSE outs[k].frame.data[c] \o stack_data(c, k + 1)
    IN  CASE kind = "scalar" ->
                 [name   |-> "",
                  index  |-> [k \in 1..n |-> calls[k].key],
                  values |-> [k \in 1..n |-> outs[k].value]]
          [] kind = "series" ->
                 [columns |-> outs[1].index,
                  index   |-> [k \in 1..n |-> calls[k].key],
                  data    |-> [c \in Range(outs[1].index) |->
                                 [k \in 1..n |->
                                     outs[k].values[CHOOSE j \in 1..Len(outs[k].index) :
                                                       outs[k].index[j] = c]]]]
          [] kind = "frame" ->
                 [columns |-> outs[1].frame.columns,
                  index   |-> stack_index(1),
                  data    |-> [c \in DOMAIN outs[1].frame.data |-> stack_data(c, 1)]]

\* ---------------------------------------------------------------- .transform(func)
\* the functions given to transform: "mean" and "var" return a scalar,
\* "demean" a series of the dimensions of series_in_group
TransformFuncs == {"mean", "var", "demean"}

transform_func(f, values) ==
    CASE f \in Reducers -> reduce(f, values)
      [] f = "demean"   -> [i \in 1..Len(values) |-> FSub(values[i], mean(values))]

returns_scalar(f) == f \in Reducers

\* the group number (position in g.keys) of the row at position i
group_of(g, i) == CHOOSE k \in 1..Len(g.keys) : i \in Range(g.pos[k])

\* the rank of row position i inside its group
rank_in(pos, i) == CHOOSE r \in 1..Len(pos) : pos[r] = i

\* func(series_in_group) once for each series in each group; a scalar is made
\* into a series of length len(series_in_group); rows keep the frame's order
transform_group_order(df, key, f) ==
    LET g    == groupby(df, key)
        cols == value_columns(df, key)
        out(c, k) == LET r == transform_func(f, take(df.data[c], g.pos[k]))
                     IN  IF returns_scalar(f)
                         THEN [j \in 1..Len(g.pos[k]) |-> r] ELSE r
        RECURSIVE cat(_, _)
        cat(c, k) == IF k > Len(g.keys) THEN << >> ELSE out(c, k) \o cat(c, k + 1)
        order == LET RECURSIVE ord(_)
                     ord(k) == IF k > Len(g.keys) THEN << >> ELSE g.pos[k] \o ord(k + 1)
                 IN  ord(1)
    IN  [columns |-> cols,
         index   |-> take(df.index, order),
         data    |-> [c \in Range(cols) |-> cat(c, 1)]]

transform(df, key, f) ==
    LET g    == groupby(df, key)
        cols == value_columns(df, key)
        out(c, k) == LET r == transform_func(f, take(df.data[c], g.pos[k]))
                     IN  IF returns_scalar(f)
                         THEN [j \in 1..Len(g.pos[k]) |-> r] ELSE r
    IN  [columns |-> cols,
         index   |-> df.index,
         data    |-> [c \in Range(cols) |->
                        [i \in 1..nrows(df) |->
                            LET k == group_of(g, i)
                            IN  out(c, k)[rank_in(g.pos[k], i)]]]]

\* ---------------------------------------------------------------- state machine
NoOp == [op |-> "none"]

Init ==
    /\ dfs = << >>
    /\ last = NoOp
    /\ result = NoOp
    /\ warn = "none"
    /\ err = "none"
    /\ writes = 0

\* the statements of a cell act on df, the dataframe bound last; the
\* dataframes returned by earlier calls of example_df() stay referenced
Slots == {Len(dfs)} \ {0}

\* df = example_df(), rebinding df or keeping the dataframe it was bound to
Build ==
    \E s \in 1..MaxTables :
        /\ s \in {Len(dfs), Len(dfs) + 1}
        /\ dfs' = IF s = Len(dfs) + 1 THEN Append(dfs, example_df)
                  ELSE [dfs EXCEPT ![s] = example_df]
        /\ last' = [op |-> "example_df", slot |-> s]
        /\ result' = NoOp
        /\ warn' = "none"
        /\ err' = "none"
        /\ UNCHANGED writes

\* the (mask, column, value) triples written through .loc[]
LocWrites ==
    { <<"CatC1", "Val3", F(9)>>, <<"CatC2", "Val3", F(10)>>,
      <<"CatC1", "Val1", F(5)>>, <<"Val2In", "Cat", "C1">> }

\* df.loc[mask, col] = v
LocSet ==
    \E s \in Slots, w \in LocWrites :
        /\ writes < MaxWrites
        /\ writes' = writes + 1
        /\ dfs' = [dfs EXCEPT ![s] = loc_setitem(dfs[s], pred_mask(dfs[s], w[1]), w[2], w[3])]
        /\ last' = [op |-> "loc_setitem", slot |-> s, pred |-> w[1], col |-> w[2], val |-> w[3]]
        /\ result' = NoOp
        /\ warn' = "none"
        /\ err' = "none"

\* df[mask]
SelectRows ==
    \E s \in Slots, p \in PredNames :
        /\ result' = getitem_mask(dfs[s], pred_mask(dfs[s], p))
        /\ last' = [op |-> "getitem_mask", slot |-> s, pred |-> p]
        /\ warn' = "none"
        /\ err' = "none"
        /\ UNCHANGED <<dfs, writes>>

\* df[col]
SelectColumn ==
    \E s \in Slots, c \in {"Cat", "Val1"} :
        /\ result' = getitem_col(dfs[s], c)
        /\ last' = [op |-> "getitem_col", slot |-> s, col |-> c]
        /\ warn' = "none"
        /\ err' = "none"
        /\ UNCHANGED <<dfs, writes>>

\* df[mask][col]
ChainedGet ==
    \E s \in Slots, p \in {"CatC1", "Val2Range"}, c \in {"Val1"} :
        /\ result' = chained_getitem(dfs[s], pred_mask(dfs[s], p), c)
        /\ last' = [op |-> "chained_getitem", slot |-> s, pred |-> p, col |-> c]
        /\ warn' = "none"
        /\ err' = "none"
        /\ UNCHANGED <<dfs, writes>>

\* df[mask][col] = v: pandas warns and the frame might or might not be modified
ChainedSet ==
    \E s \in Slots, p \in {"CatC1"}, isView \in BOOLEAN :
        /\ writes < MaxWrites
        /\ writes' = writes + 1
        /\ dfs' = [dfs EXCEPT ![s] =
                      chained_setitem(dfs[s], pred_mask(dfs[s], p), "Val1", F(5), isView)]
        /\ last' = [op |-> "chained_setitem", slot |-> s, pred |-> p,
                    col |-> "Val1", val |-> F(5)]
        /\ result' = NoOp
        /\ warn' = "SettingWithCopyWarning"
        /\ err' = "none"

\* (m1) & (m2), (m1) | (m2), ~(m1)
MaskOps == {"and", "or", "not"}

MaskPairs == {<<"CatC1", "Val2Range">>, <<"Val2In", "CatC2">>}

MaskCompose ==
    \E s \in Slots, o \in MaskOps, pq \in MaskPairs :
      LET p == pq[1]
          q == pq[2]
      IN
        /\ result' = CASE o = "and" -> mask_and(pred_mask(dfs[s], p), pred_mask(dfs[s], q))
                       [] o = "or"  -> mask_or(pred_mask(dfs[s], p), pred_mask(dfs[s], q))
                       [] o = "not" -> mask_not(pred_mask(dfs[s], p))
        /\ last' = [op |-> "mask", slot |-> s, how |-> o, p |-> p, q |-> q]
        /\ warn' = "none"
        /\ err' = "none"
        /\ UNCHANGED <<dfs, writes>>

\* df[col].isin(vals)
IsinValues == {{F(4), F(8)}, {F(5), F(6)}, {}}

Isin ==
    \E s \in Slots, c \in {"Val1", "Val2"}, vals \in IsinValues :
        /\ c = "Val1" => vals = {F(5), F(6)}
        /\ result' = isin(getitem_col(dfs[s], c), vals)
        /\ last' = [op |-> "isin", slot |-> s, col |-> c, vals |-> vals]
        /\ warn' = "none"
        /\ err' = "none"
        /\ UNCHANGED <<dfs, writes>>

\* df.groupby("Cat").agg(func)
Agg ==
    \E s \in Slots, f \in Reducers :
        /\ result' = agg(dfs[s], "Cat", f)
        /\ last' = [op |-> "agg", slot |-> s, func |-> f]
        /\ warn' = "none"
        /\ err' = "none"
        /\ UNCHANGED <<dfs, writes>>

\* df.groupby("Cat").agg([np.mean, np.var])
AggMulti ==
    \E s \in Slots :
        /\ result' = agg_multi(dfs[s], "Cat", <<"mean", "var">>)
        /\ last' = [op |-> "agg_multi", slot |-> s, funcs |-> <<"mean", "var">>]
        /\ warn' = "none"
        /\ err' = "none"
        /\ UNCHANGED <<dfs, writes>>

\* df.groupby("Cat").agg(val1_mean=("Val1", np.mean), ...) and
\* df.groupby("Cat")["Val1"].agg(val1_mean=np.mean, val1_var=np.var)
NamedAggs ==
    { << [name |-> "val1_mean", col |-> "Val1", func |-> "mean"],
         [name |-> "val2_mean", col |-> "Val2", func |-> "mean"] >>,
      << [name |-> "val1_mean", col |-> "Val1", func |-> "mean"],
         [name |-> "val1_var",  col |-> "Val1", func |-> "var"] >> }

AggNamed ==
    \E s \in Slots, named \in NamedAggs :
        /\ result' = agg_named(dfs[s], "Cat", named)
        /\ last' = [op |-> "agg_named", slot |-> s, named |-> named]
        /\ warn' = "none"
        /\ err' = "none"
        /\ UNCHANGED <<dfs, writes>>

\* df.groupby("Cat").transform(func)
Transform_inplace ==
    \E s \in Slots, f \in TransformFuncs :
        LET res == transform(dfs[s], "Cat", f)
        IN  /\ result' = res
            /\ dfs' = [dfs EXCEPT ![s].data =
                          [c \in DOMAIN @ |-> IF c \in DOMAIN res.data THEN res.data[c] ELSE @[c]]]
            /\ last' = [op |-> "transform", slot |-> s, func |-> f]
            /\ warn' = "none"
            /\ err' = "none"
            /\ UNCHANGED writes

Transform ==
    \E s \in Slots, f \in TransformFuncs :
        /\ result' = transform(dfs[s], "Cat", f)
        /\ last' = [op |-> "transform", slot |-> s, func |-> f]
        /\ warn' = "none"
        /\ err' = "none"
        /\ UNCHANGED <<dfs, writes>>

\* df.loc[mask, col]
LocGet ==
    \E s \in Slots, p \in {"CatC2"}, c \in {"Val2"} :
        /\ result' = loc_getitem(dfs[s], pred_mask(dfs[s], p), c)
        /\ last' = [op |-> "loc_getitem", slot |-> s, pred |-> p, col |-> c]
        /\ warn' = "none"
        /\ err' = "none"
        /\ UNCHANGED <<dfs, writes>>

\* df.groupby("Cat").apply(func)
Apply ==
    \E s \in Slots, f \in ApplyFuncs :
        /\ result' = apply(dfs[s], "Cat", f)
        /\ last' = [op |-> "apply", slot |-> s, func |-> f,
                    calls |-> apply_calls(dfs[s], "Cat")]
        /\ warn' = "none"
        /\ err' = "none"
        /\ UNCHANGED <<dfs, writes>>

Next ==
    \/ Build
    \/ LocSet
    \/ ChainedSet
    \/ SelectRows
    \/ SelectColumn
    \/ ChainedGet
    \/ MaskCompose
    \/ Isin
    \/ Agg
    \/ AggMulti
    \/ AggNamed
    \/ Transform
    \/ LocGet
    \/ Apply

Spec == Init /\ [][Next]_vars

\* ================================================================ properties
\* vocabulary of the properties: cells are read by row label and column label,
\* and the notebook's conditions are stated on the cells of one row

\* the position of the row labelled r
PosOf(df, r) == CHOOSE i \in 1..Len(df.index) : df.index[i] = r

\* the cell at row label r, column c
At(df, r, c) == df.data[c][PosOf(df, r)]

\* x is the float n
IsNum(x, n) == x.den # 0 /\ x.num = n * x.den

\* the condition named p holds of the row at position i of df
RowSat(df, i, p) ==
    CASE p = "CatC1"     -> df.data["Cat"][i] = "C1"
      [] p = "CatC2"     -> df.data["Cat"][i] = "C2"
      [] p = "Val2Range" -> \E n \in 4..6 : IsNum(df.data["Val2"][i], n)
      [] p = "Val2In"    -> IsNum(df.data["Val2"][i], 4) \/ IsNum(df.data["Val2"][i], 8)

\* df holds the literal content of the example: 4 rows, columns Cat, Val1, Val2
IsFixture(df) ==
    /\ df.columns = <<"Cat", "Val1", "Val2">>
    /\ df.index = <<0, 1, 2, 3>>
    /\ DOMAIN df.data = {"Cat", "Val1", "Val2"}
    /\ \A r \in 0..3 :
        /\ At(df, r, "Cat") = IF r < 2 THEN "C1" ELSE "C2"
        /\ IsNum(At(df, r, "Val1"), 2 * r + 1)
        /\ IsNum(At(df, r, "Val2"), 2 * r + 2)

IsWrite(o) == o.op \in {"loc_setitem", "chained_setitem"}

\* ---------------------------------------------------------------- C1
\* C1: whatever builder calls and writes came before, a call of example_df()
\* returns the literal 4-row example, and a builder call or a write on one
\* dataframe leaves every other dataframe as it was.
C1_BuilderFreshAndIndependent ==
    [][ /\ last'.op = "example_df" =>
            /\ IsFixture(dfs'[last'.slot])
            /\ \A t \in 1..Len(dfs) : t # last'.slot => dfs'[t] = dfs[t]
        /\ IsWrite(last') =>
            /\ Len(dfs') = Len(dfs)
            /\ \A t \in 1..Len(dfs) : t # last'.slot => dfs'[t] = dfs[t]
      ]_vars

\* a builder call has just returned while another dataframe holds written cells
C1_Witness ==
    /\ last.op = "example_df"
    /\ Len(dfs) = 2
    /\ \E t \in 1..2 : t # last.slot /\ ~IsFixture(dfs[t])

\* ---------------------------------------------------------------- C2
\* C2: df.loc[mask, col] = v sets exactly the cells of col in the rows where
\* the mask holds; every other cell keeps its value, a cell of a new column
\* that the write did not match is NaN, and on the example Val3 = 9 for C1
\* then Val3 = 10 for C2 leaves Val3 = [9, 9, 10, 10] with Cat, Val1, Val2 intact.
C2_LocWritesExactlyMatching ==
    [][ last'.op = "loc_setitem" =>
          LET old == dfs[last'.slot]
              new == dfs'[last'.slot]
              col == last'.col
              had == \E j \in 1..Len(old.columns) : old.columns[j] = col
          IN  /\ new.index = old.index
              /\ new.columns = IF had THEN old.columns ELSE old.columns \o <<col>>
              /\ \A i \in 1..Len(old.index) :
                   \A j \in 1..Len(new.columns) :
                     LET c == new.columns[j]
                     IN  new.data[c][i] =
                           IF c = col /\ RowSat(old, i, last'.pred) THEN last'.val
                           ELSE IF c = col /\ ~had THEN NaN
                           ELSE old.data[c][i]
              /\ (IsFixture(old) /\ last'.pred = "CatC1" /\ col = "Val3" /\ last'.val = F(9))
                   => new.data["Val3"] = <<F(9), F(9), NaN, NaN>>
              /\ ( /\ IsFixture([old EXCEPT !.columns = <<"Cat", "Val1", "Val2">>,
                                            !.data = [c \in {"Cat", "Val1", "Val2"} |-> old.data[c]]])
                   /\ old.columns = <<"Cat", "Val1", "Val2", "Val3">>
                   /\ old.data["Val3"] = <<F(9), F(9), NaN, NaN>>
                   /\ last'.pred = "CatC2" /\ col = "Val3" /\ last'.val = F(10) )
                   => /\ new.data["Val3"] = <<F(9), F(9), F(10), F(10)>>
                      /\ \A c \in {"Cat", "Val1", "Val2"} : new.data[c] = example_df.data[c]
      ]_vars

\* the notebook's two writes have been made on the example
C2_Witness ==
    /\ last.op = "loc_setitem"
    /\ last.pred = "CatC2"
    /\ dfs[last.slot].columns = <<"Cat", "Val1", "Val2", "Val3">>
    /\ dfs[last.slot].data["Val3"] = <<F(9), F(9), F(10), F(10)>>
    /\ \A r \in 0..3 : IsNum(At(dfs[last.slot], r, "Val1"), 2 * r + 1)

\* ---------------------------------------------------------------- C3
\* C3 as claimed: after df[mask][col] = v, either the cells of col in the
\* matching rows of df hold v or the write was rejected with an error.
C3_ChainedWriteNeverLost ==
    [][ last'.op = "chained_setitem" =>
          \/ err' # "none"
          \/ \A i \in 1..Len(dfs[last'.slot].index) :
                RowSat(dfs[last'.slot], i, last'.pred)
                  => dfs'[last'.slot].data[last'.col][i] = last'.val
      ]_vars

\* C3 as the notebook has it: df[mask][col] = v raises no error and emits
\* SettingWithCopyWarning, and df afterwards either holds v in exactly the
\* matching cells of col (the selection was a view) or is unchanged (the
\* selection was a copy); no other cell and no other dataframe changes.
C3_ChainedWriteLandsOrIsLost ==
    [][ last'.op = "chained_setitem" =>
          LET old == dfs[last'.slot]
              new == dfs'[last'.slot]
          IN  /\ err' = "none"
              /\ warn' = "SettingWithCopyWarning"
              /\ \/ new = old
                 \/ /\ new.index = old.index
                    /\ new.columns = old.columns
                    /\ \A i \in 1..Len(old.index) :
                         \A j \in 1..Len(old.columns) :
                           LET c == old.columns[j]
                           IN  new.data[c][i] =
                                 IF c = last'.col /\ RowSat(old, i, last'.pred)
                                 THEN last'.val ELSE old.data[c][i]
      ]_vars

\* a chained write has run and row 0, which the mask matched, still holds 1.0
C3_Witness ==
    /\ last.op = "chained_setitem"
    /\ warn = "SettingWithCopyWarning"
    /\ RowSat(dfs[last.slot], 1, last.pred)
    /\ IsNum(dfs[last.slot].data["Val1"][1], 1)

\* ---------------------------------------------------------------- C4
\* C4: df[mask] returns exactly the rows where the condition holds, in their
\* original order and under their original row labels, each with the values
\* it has in df; on the example Cat == "C1" gives rows 0 and 1,
\* (C1, 1, 2) and (C1, 3, 4).
C4_SelectRowsExact ==
    last.op = "getitem_mask" =>
        LET df == dfs[last.slot]
            n  == Len(result.index)
        IN  /\ result.columns = df.columns
            /\ DOMAIN result.data = DOMAIN df.data
            /\ \A c \in DOMAIN result.data : Len(result.data[c]) = n
            /\ \A i \in 1..Len(df.index) :
                 RowSat(df, i, last.pred) <=> \E k \in 1..n : result.index[k] = df.index[i]
            /\ \A k \in 1..n : \A l \in 1..n :
                 k < l => PosOf(df, result.index[k]) < PosOf(df, result.index[l])
            /\ \A k \in 1..n : \A c \in DOMAIN df.data :
                 result.data[c][k] = At(df, result.index[k], c)
            /\ (IsFixture(df) /\ last.pred = "CatC1") =>
                 /\ result.index = <<0, 1>>
                 /\ result.data["Cat"] = <<"C1", "C1">>
                 /\ result.data["Val1"] = <<F(1), F(3)>>
                 /\ result.data["Val2"] = <<F(2), F(4)>>

\* a selection that keeps two rows and drops the first row of the frame
C4_Witness ==
    /\ last.op = "getitem_mask"
    /\ Len(result.index) = 2
    /\ result.index[1] # 0

\* ---------------------------------------------------------------- C5
\* C5: (m1) & (m2), (m1) | (m2) and ~(m1) give one mask with one boolean per
\* row of df, equal at each row to the conjunction, disjunction or negation
\* of the operand conditions at that row; on the example
\* (Val2 >= 4) & (Val2 <= 6) selects rows 1 and 2 only.
C5_MaskComposition ==
    /\ last.op = "mask" =>
        LET df == dfs[last.slot]
        IN  /\ result.index = df.index
            /\ Len(result.values) = Len(df.index)
            /\ \A i \in 1..Len(df.index) :
                 result.values[i] =
                   CASE last.how = "and" -> RowSat(df, i, last.p) /\ RowSat(df, i, last.q)
                     [] last.how = "or"  -> RowSat(df, i, last.p) \/ RowSat(df, i, last.q)
                     [] last.how = "not" -> ~RowSat(df, i, last.p)
    /\ (last.op = "getitem_mask" /\ last.pred = "Val2Range" /\ IsFixture(dfs[last.slot]))
         => result.index = <<1, 2>>

\* a conjunction and a disjunction of the same two masks that differ
C5_Witness ==
    /\ last.op = "mask"
    /\ last.how = "and"
    /\ \E i \in 1..Len(result.values) :
         /\ ~result.values[i]
         /\ RowSat(dfs[last.slot], i, last.p) # RowSat(dfs[last.slot], i, last.q)

\* ---------------------------------------------------------------- C6
\* C6: df[col].isin(vals) is True at exactly the rows whose value of col is
\* one of vals; on the example Val2.isin([4, 8]) selects rows 1 and 3 only.
C6_IsinMembership ==
    /\ last.op = "isin" =>
        LET df == dfs[last.slot]
        IN  /\ result.index = df.index
            /\ Len(result.values) = Len(df.index)
            /\ \A i \in 1..Len(df.index) :
                 result.values[i] <=>
                   \E v \in last.vals :
                      /\ v.den # 0 /\ df.data[last.col][i].den # 0
                      /\ v.num * df.data[last.col][i].den = df.data[last.col][i].num * v.den
    /\ (last.op = "getitem_mask" /\ last.pred = "Val2In" /\ IsFixture(dfs[last.slot]))
         => result.index = <<1, 3>>

\* isin over two values has matched a row on the larger value
C6_Witness ==
    /\ last.op = "isin"
    /\ last.vals = {F(4), F(8)}
    /\ \E i \in 1..Len(result.values) :
         result.values[i] /\ IsNum(dfs[last.slot].data[last.col][i], 8)

\* ---------------------------------------------------------------- groups, stated on rows
\* positions of the rows of df whose key is k and whose cell of column c is a number
GroupRows(df, k, c) ==
    {i \in 1..Len(df.index) : df.data["Cat"][i] = k /\ df.data[c][i].den # 0}

\* sum of the (integer-valued) cells of column c over the positions in S
RECURSIVE SumOver(_, _, _)
SumOver(df, c, S) ==
    IF S = {} THEN 0
    ELSE LET i == CHOOSE j \in S : TRUE
         IN  df.data[c][i].num + SumOver(df, c, S \ {i})

\* sum of the squares of the cells of column c over the positions in S
RECURSIVE SumSqOver(_, _, _)
SumSqOver(df, c, S) ==
    IF S = {} THEN 0
    ELSE LET i == CHOOSE j \in S : TRUE
         IN  df.data[c][i].num * df.data[c][i].num + SumSqOver(df, c, S \ {i})

\* r is the arithmetic mean of column c over the rows S (NaN when S is empty)
IsMean(r, df, c, S) ==
    LET n == Cardinality(S)
    IN  /\ \A i \in S : df.data[c][i].den = 1
        /\ IF n = 0 THEN r.den = 0
           ELSE r.den # 0 /\ r.num * n = SumOver(df, c, S) * r.den

\* r is the sample variance of column c over the rows S: the squared deviations
\* from the mean summed and divided by n - 1, i.e. (n * sum x^2 - (sum x)^2) / (n (n - 1))
IsSampleVar(r, df, c, S) ==
    LET n  == Cardinality(S)
        sx == SumOver(df, c, S)
    IN  /\ \A i \in S : df.data[c][i].den = 1
        /\ IF n <= 1 THEN r.den = 0
           ELSE r.den # 0 /\ r.num * n * (n - 1) = (n * SumSqOver(df, c, S) - sx * sx) * r.den

IsReduced(f, r, df, c, S) ==
    CASE f = "mean" -> IsMean(r, df, c, S)
      [] f = "var"  -> IsSampleVar(r, df, c, S)

\* the result is keyed by the distinct values of Cat in df, each exactly once
KeyedByGroups(res, df) ==
    /\ \A k \in 1..Len(res.index) : \A l \in 1..Len(res.index) :
         k # l => res.index[k] # res.index[l]
    /\ {res.index[k] : k \in 1..Len(res.index)}
         = {df.data["Cat"][i] : i \in 1..Len(df.index)}

NonKeyColumns(df) == {df.columns[j] : j \in 1..Len(df.columns)} \ {"Cat"}

\* ---------------------------------------------------------------- C7
\* C7: df.groupby("Cat").agg(func) has exactly one row per distinct value of
\* Cat in df and, per group and non-key column, the scalar func gives on that
\* column's values in the rows of the group; on the example mean gives
\* C1: Val1 = 2, Val2 = 3 and C2: Val1 = 6, Val2 = 7.
C7_AggOneRowPerGroup ==
    last.op = "agg" =>
        LET df == dfs[last.slot]
        IN  /\ KeyedByGroups(result, df)
            /\ {result.columns[j] : j \in 1..Len(result.columns)} = NonKeyColumns(df)
            /\ Len(result.columns) = Cardinality(NonKeyColumns(df))
            /\ DOMAIN result.data = NonKeyColumns(df)
            /\ \A c \in NonKeyColumns(df) :
                 /\ Len(result.data[c]) = Len(result.index)
                 /\ \A k \in 1..Len(result.index) :
                      IsReduced(last.func, result.data[c][k], df, c,
                                GroupRows(df, result.index[k], c))
            /\ (IsFixture(df) /\ last.func = "mean") =>
                 /\ result.index = <<"C1", "C2">>
                 /\ result.data["Val1"] = <<F(2), F(6)>>
                 /\ result.data["Val2"] = <<F(3), F(7)>>

\* a mean over a group of three rows that is not a whole number
C7_Witness ==
    /\ last.op = "agg"
    /\ last.func = "mean"
    /\ Len(result.index) = 2
    /\ \E c \in DOMAIN result.data : result.data[c][1].den = 3

\* ---------------------------------------------------------------- C8
\* C8: with several reducers there is, per group, one scalar per (non-key
\* column, reducer) pair (per declared name for named reducers), and var is
\* the sample variance, divisor n - 1: on the example Val1 of C1 has mean 2
\* and variance 2, and every group and column has variance 2.
C8_MultiAggSampleVariance ==
    /\ last.op = "agg_multi" =>
        LET df    == dfs[last.slot]
            pairs == NonKeyColumns(df) \X {"mean", "var"}
        IN  /\ KeyedByGroups(result, df)
            /\ {result.columns[j] : j \in 1..Len(result.columns)} = pairs
            /\ Len(result.columns) = Cardinality(pairs)
            /\ DOMAIN result.data = pairs
            /\ \A cf \in pairs :
                 /\ Len(result.data[cf]) = Len(result.index)
                 /\ \A k \in 1..Len(result.index) :
                      IsReduced(cf[2], result.data[cf][k], df, cf[1],
                                GroupRows(df, result.index[k], cf[1]))
            /\ IsFixture(df) =>
                 /\ result.index = <<"C1", "C2">>
                 /\ result.data[<<"Val1", "mean">>][1] = F(2)
                 /\ \A c \in {"Val1", "Val2"} : result.data[<<c, "var">>] = <<F(2), F(2)>>
    /\ last.op = "agg_named" =>
        LET df == dfs[last.slot]
        IN  /\ KeyedByGroups(result, df)
            /\ Len(result.columns) = Len(last.named)
            /\ \A j \in 1..Len(last.named) :
                 /\ result.columns[j] = last.named[j].name
                 /\ Len(result.data[last.named[j].name]) = Len(result.index)
                 /\ \A k \in 1..Len(result.index) :
                      IsReduced(last.named[j].func, result.data[last.named[j].name][k],
                                df, last.named[j].col,
                                GroupRows(df, result.index[k], last.named[j].col))
            /\ (IsFixture(df) /\ "val1_var" \in DOMAIN result.data) =>
                 /\ result.data["val1_mean"] = <<F(2), F(6)>>
                 /\ result.data["val1_var"] = <<F(2), F(2)>>

\* mean and var of the example: Val1 of C1 is 1, 3 with mean 2 and variance 2
C8_Witness ==
    /\ last.op = "agg_multi"
    /\ IsFixture(dfs[last.slot])
    /\ result.data[<<"Val1", "mean">>][1] = F(2)
    /\ result.data[<<"Val1", "var">>][1] = F(2)

\* ---------------------------------------------------------------- C9
\* C9: df.groupby("Cat").transform(func) has the rows of df: same count, same
\* labels, same order; each row holds the value func gives for the row's own
\* group, a scalar being repeated on every row of the group; on the example
\* with mean rows 0 and 1 are (2, 3) and rows 2 and 3 are (6, 7).
C9_TransformKeepsRows ==
    last.op = "transform" =>
        LET df == dfs[last.slot]
        IN  /\ result.index = df.index
            /\ {result.columns[j] : j \in 1..Len(result.columns)} = NonKeyColumns(df)
            /\ Len(result.columns) = Cardinality(NonKeyColumns(df))
            /\ DOMAIN result.data = NonKeyColumns(df)
            /\ \A c \in NonKeyColumns(df) :
                 /\ Len(result.data[c]) = Len(df.index)
                 /\ \A i \in 1..Len(df.index) :
                      LET rows == GroupRows(df, df.data["Cat"][i], c)
                          x    == df.data[c][i]
                          r    == result.data[c][i]
                      IN  CASE last.func = "mean"   -> IsMean(r, df, c, rows)
                            [] last.func = "var"    -> IsSampleVar(r, df, c, rows)
                            [] last.func = "demean" ->
                                 IF x.den = 0 THEN r.den = 0
                                 ELSE r.den # 0 /\ IsMean(FSub(x, r), df, c, rows)
            /\ (IsFixture(df) /\ last.func = "mean") =>
                 /\ result.data["Val1"] = <<F(2), F(2), F(6), F(6)>>
                 /\ result.data["Val2"] = <<F(3), F(3), F(7), F(7)>>

\* a transform by a scalar over groups whose rows are not adjacent in the frame
C9_Witness ==
    /\ last.op = "transform"
    /\ last.func = "mean"
    /\ dfs[last.slot].data["Cat"] = <<"C1", "C1", "C2", "C1">>
    /\ result.data["Val1"][3] # result.data["Val1"][4]

ReadOps ==
    {"getitem_mask", "getitem_col", "chained_getitem", "loc_getitem", "mask",
     "isin", "agg", "agg_multi", "agg_named", "apply", "transform"}

KeyPos(res, k) == CHOOSE j \in 1..Len(res.index) : res.index[j] = k

C15_TransformAggApplyAgree ==
    /\ (last.op = "transform" /\ last.func \in Reducers) =>
         LET df == dfs[last.slot]
             a  == agg(df, "Cat", last.func)
         IN  \A c \in NonKeyColumns(df) : \A i \in 1..Len(df.index) :
               result.data[c][i] = a.data[c][KeyPos(a, df.data["Cat"][i])]
    /\ last.op = "agg" =>
         LET df == dfs[last.slot]
             t  == transform(df, "Cat", last.func)
             p  == apply(df, "Cat", last.func)
         IN  /\ \A c \in NonKeyColumns(df) : \A i \in 1..Len(df.index) :
                  t.data[c][i] = result.data[c][KeyPos(result, df.data["Cat"][i])]
             /\ p.index = result.index
             /\ \A c \in NonKeyColumns(df) : p.data[c] = result.data[c]
    /\ (last.op = "apply" /\ last.func \in Reducers) =>
         LET df == dfs[last.slot]
             a  == agg(df, "Cat", last.func)
         IN  /\ result.index = a.index
             /\ DOMAIN result.data = DOMAIN a.data
             /\ \A c \in NonKeyColumns(df) : result.data[c] = a.data[c]

\* transform by var where one group is a single row (NaN) and the other is not
C15_Witness ==
    /\ last.op = "transform"
    /\ last.func = "var"
    /\ dfs[last.slot].data["Cat"] = <<"C1", "C1", "C2", "C1">>
    /\ result.data["Val1"][3].den = 0
    /\ result.data["Val1"][4].den # 0

====
